---- MODULE Spec2Model ----
(***************************************************************************)
(* A model of the gaze-tracking engine: Calibration (calibration.py),      *)
(* Pupil (pupil.py), Eye (eye.py) and GazeTracking (gaze_tracking.py).     *)
(*                                                                         *)
(* OpenCV and dlib are outside the repository.  What they return is part   *)
(* of a frame's input: the number of detected faces, the twelve eye        *)
(* landmarks, the grey levels an eye patch has after bilateralFilter and   *)
(* erode (which do not depend on the threshold), and the contours that     *)
(* findContours reports.  Everything the repository computes from them is  *)
(* computed here as the code computes it.                                  *)
(***************************************************************************)
EXTENDS Integers, Sequences, FiniteSets, Bags, TLC

(***************************************************************************)
(* Python values.  A float is kept as the exact fraction n/d with d > 0.   *)
(* A call that raises yields Raise(exception).                             *)
(***************************************************************************)
None == [tag |-> "None"]

Unset == [tag |-> "unset"]

PyInt(v) == [tag |-> "int", v |-> v]

PyBool(b) == [tag |-> "bool", v |-> b]

Float(n, d) == IF d < 0 THEN [tag |-> "float", n |-> 0 - n, d |-> 0 - d]
                      ELSE [tag |-> "float", n |-> n, d |-> d]

Raise(e) == [tag |-> "raise", exc |-> e]

IsRaise(r) == r.tag = "raise"

Abs(a) == IF a < 0 THEN 0 - a ELSE a

Max(a, b) == IF a < b THEN b ELSE a

Min(a, b) == IF a < b THEN a ELSE b

\* int(a / b) for b > 0: true division, then truncation toward zero.
TruncDiv(a, b) == IF a >= 0 THEN a \div b ELSE 0 - ((0 - a) \div b)

\* p < q and p <= q on fractions with positive denominators.
RatLt(p, q) == p.n * q.d < q.n * p.d

RatLeq(p, q) == p.n * q.d <= q.n * p.d

\* abs(p - q)
RatAbsDiff(p, q) == Float(Abs(p.n * q.d - q.n * p.d), p.d * q.d)

\* (p + q) / 2
RatMean(p, q) == Float(p.n * q.d + q.n * p.d, 2 * p.d * q.d)

\* The length of the Python slice [lo:hi] of a sequence of n elements.
SliceIndex(i, n) == IF i < 0 THEN Max(i + n, 0) ELSE Min(i, n)

SliceLen(lo, hi, n) == Max(SliceIndex(hi, n) - SliceIndex(lo, n), 0)

\* math.hypot, for the landmark sets of this model, whose distances are whole.
Hypot(dx, dy) == CHOOSE r \in 0..(Abs(dx) + Abs(dy)) : r * r = dx * dx + dy * dy

(***************************************************************************)
(* pupil.py                                                                *)
(*                                                                         *)
(* An eye patch is [height, width, tone, contours]: its shape, the grey    *)
(* levels of its smoothed and eroded image inside the 5-pixel border (the  *)
(* interior pixel i holds tone[(i % Len(tone)) + 1]) and the contours      *)
(* findContours reports on its binary image.                               *)
(***************************************************************************)
InnerCount(height, width) == SliceLen(5, -5, height) * SliceLen(5, -5, width)

Smoothed(eye_frame, i) == eye_frame.tone[((i - 1) % Len(eye_frame.tone)) + 1]

\* A threshold step that sends only the levels below the threshold to 0: the
\* property of the step that a level equal to the threshold gives 0 must fail
\* under it.
ThreshBelow(v, threshold) == IF v < threshold THEN 0 ELSE 255

\* cv2.threshold(v, threshold, 255, cv2.THRESH_BINARY): 255 where v > threshold.
ThreshBinary(v, threshold) == IF v > threshold THEN 255 ELSE 0

\* Pupil.image_processing: the binary frame, or cv2.error on an empty patch.
image_processing(eye_frame, threshold) ==
    IF eye_frame.height = 0 \/ eye_frame.width = 0
    THEN Raise("cv2.error")
    ELSE [tag |-> "image", height |-> eye_frame.height, width |-> eye_frame.width,
          inner |-> [i \in 1..InnerCount(eye_frame.height, eye_frame.width) |->
                        ThreshBinary(Smoothed(eye_frame, i), threshold)]]

\* sorted(contours, key=cv2.contourArea): a stable insertion sort, ascending.
RECURSIVE InsertByArea(_, _)
InsertByArea(c, s) ==
    IF s = <<>> THEN <<c>>
    ELSE IF c.area < Head(s).area THEN <<c>> \o s
    ELSE <<Head(s)>> \o InsertByArea(c, Tail(s))

RECURSIVE SortedByArea(_)
SortedByArea(s) ==
    IF s = <<>> THEN <<>>
    ELSE InsertByArea(s[Len(s)], SortedByArea(SubSeq(s, 1, Len(s) - 1)))

\* A selection of the largest contour instead of the second largest: the
\* property of the selected contour must fail under it.
CentroidLargest(found) ==
    LET contours == SortedByArea(found)
    IN  IF Len(contours) < 1 THEN <<None, None>>
        ELSE LET moments == contours[Len(contours)]
             IN  IF moments.m00 = 0 THEN <<None, None>>
                 ELSE <<PyInt(TruncDiv(moments.m10, moments.m00)),
                        PyInt(TruncDiv(moments.m01, moments.m00))>>

\* Pupil.detect_iris after image_processing: the centroid <<x, y>>.
Centroid(found) ==
    LET contours == SortedByArea(found)
    IN  IF Len(contours) < 2 THEN <<None, None>>                      \* IndexError
        ELSE LET moments == contours[Len(contours) - 1]
             IN  IF moments.m00 = 0 THEN <<None, None>>               \* ZeroDivisionError
                 ELSE <<PyInt(TruncDiv(moments.m10, moments.m00)),
                        PyInt(TruncDiv(moments.m01, moments.m00))>>

\* Pupil(eye_frame, threshold): __init__ and detect_iris.
Pupil(eye_frame, threshold) ==
    LET iris_frame == image_processing(eye_frame, threshold)
        c == Centroid(eye_frame.contours)
    IN  IF IsRaise(iris_frame) THEN iris_frame
        ELSE [tag |-> "Pupil", iris_frame |-> iris_frame, threshold |-> threshold,
              x |-> c[1], y |-> c[2]]

(***************************************************************************)
(* eye.py                                                                  *)
(*                                                                         *)
(* A frame is [faces, shape, landmarks, content]: the number of faces the  *)
(* detector finds, <<height, width>>, the landmarks 36..47 of the first    *)
(* face, and per eye (by its first landmark) the tone and contours of the  *)
(* patch cut around it.                                                    *)
(***************************************************************************)
LEFT_EYE_POINTS == <<36, 37, 38, 39, 40, 41>>

RIGHT_EYE_POINTS == <<42, 43, 44, 45, 46, 47>>

margin == 5

\* Eye._middle_point
MiddlePoint(p1, p2) == [x |-> TruncDiv(p1.x + p2.x, 2), y |-> TruncDiv(p1.y + p2.y, 2)]

\* Eye._blinking_ratio: ZeroDivisionError is caught and gives None.
BlinkingRatio(landmarks, points) ==
    LET left == landmarks[points[1]]
        right == landmarks[points[4]]
        top == MiddlePoint(landmarks[points[2]], landmarks[points[3]])
        bottom == MiddlePoint(landmarks[points[6]], landmarks[points[5]])
        eye_width == Hypot(left.x - right.x, left.y - right.y)
        eye_height == Hypot(top.x - bottom.x, top.y - bottom.y)
    IN  IF eye_height = 0 THEN None ELSE Float(eye_width, eye_height)

SetMin(S) == CHOOSE a \in S : \A b \in S : a <= b

SetMax(S) == CHOOSE a \in S : \A b \in S : b <= a

\* Eye._isolate on the frame `original`: the fields it sets.
Isolate(original, landmarks, points) ==
    LET region == [i \in 1..Len(points) |-> landmarks[points[i]]]
        xs == {region[i].x : i \in 1..Len(points)}
        ys == {region[i].y : i \in 1..Len(points)}
        min_x == SetMin(xs) - margin
        max_x == SetMax(xs) + margin
        min_y == SetMin(ys) - margin
        max_y == SetMax(ys) + margin
        height == SliceLen(min_y, max_y, original.shape[1])
        width == SliceLen(min_x, max_x, original.shape[2])
    IN  [frame |-> [height |-> height, width |-> width,
                    tone |-> original.content[points[1]].tone,
                    contours |-> original.content[points[1]].contours],
         origin |-> <<min_x, min_y>>,
         center |-> <<Float(width, 2), Float(height, 2)>>,
         landmark_points |-> region]

(***************************************************************************)
(* The frames fed to the engine.  Landmarks are <<x, y>> points in the     *)
(* order of the eye's six indices: outer corner, two upper-lid points,     *)
(* inner corner, two lower-lid points.                                     *)
(***************************************************************************)
Pt(x, y) == [x |-> x, y |-> y]

LeftOpen == <<Pt(10, 11), Pt(11, 10), Pt(13, 10), Pt(14, 11), Pt(13, 12), Pt(11, 12)>>

LeftShut == <<Pt(10, 10), Pt(11, 10), Pt(13, 10), Pt(14, 10), Pt(13, 11), Pt(11, 11)>>

\* The lid midpoints coincide; the bounding box is 4 by 2.
LeftCrossed == <<Pt(10, 11), Pt(11, 10), Pt(13, 12), Pt(14, 11), Pt(13, 10), Pt(11, 12)>>

\* Zero vertical extent.
LeftFlat == <<Pt(10, 11), Pt(11, 11), Pt(13, 11), Pt(14, 11), Pt(13, 11), Pt(11, 11)>>

\* Zero horizontal extent.
LeftThin == <<Pt(12, 11), Pt(12, 10), Pt(12, 10), Pt(12, 11), Pt(12, 12), Pt(12, 12)>>

\* Within 5 pixels of the frame's left edge.
LeftEdge == <<Pt(2, 11), Pt(3, 10), Pt(5, 10), Pt(6, 11), Pt(5, 12), Pt(3, 12)>>

RightOpen == <<Pt(24, 11), Pt(25, 10), Pt(28, 10), Pt(29, 11), Pt(28, 12), Pt(25, 12)>>

RightShut == <<Pt(24, 10), Pt(25, 10), Pt(28, 10), Pt(29, 10), Pt(28, 11), Pt(25, 11)>>

RightFlat == <<Pt(24, 11), Pt(25, 11), Pt(28, 11), Pt(29, 11), Pt(28, 11), Pt(25, 11)>>

Landmarks(l, r) ==
    [i \in 36..47 |-> IF i < 42 THEN l[i - 35] ELSE r[i - 41]]

\* Grey levels after smoothing and erosion.
ToneA == <<8, 30, 200, 240>>

ToneB == <<12, 50, 250>>

\* Contours as findContours may list them: the patch boundary, an iris whose
\* centroid truncates to <<x, y>>, a contour of no area.
Outer == [area |-> 100, m00 |-> 100, m10 |-> 600, m01 |-> 500]

Iris(x, y) == [area |-> 4, m00 |-> 4, m10 |-> 4 * x + 1, m01 |-> 4 * y + 2]

Speck == [area |-> 0, m00 |-> 0, m10 |-> 0, m01 |-> 0]

Found(x, y) == <<Outer, Iris(x, y), Speck>>

OnlyOuter == <<Outer>>

ZeroArea == <<Speck, Outer>>

Shape == <<30, 40>>

Face(l, r, tl, tr, cl, cr) ==
    [faces |-> 1, shape |-> Shape, landmarks |-> Landmarks(l, r),
     content |-> (36 :> [tone |-> tl, contours |-> cl]) @@
                 (42 :> [tone |-> tr, contours |-> cr])]

Empty == [faces |-> 0, shape |-> Shape, landmarks |-> <<>>, content |-> <<>>]

Frames ==
    { Empty,
      Face(LeftOpen, RightOpen, ToneA, ToneB, Found(3, 6), Found(4, 6)),
      Face(LeftOpen, RightOpen, ToneB, ToneA, Found(2, 6), Found(1, 6)),
      Face(LeftOpen, RightOpen, ToneA, ToneB, Found(2, 6), Found(4, 6)),
      Face(LeftOpen, RightOpen, ToneB, ToneA, Found(2, 6), Found(2, 6)),
      Face(LeftOpen, RightOpen, ToneA, ToneB, Found(2, 6), OnlyOuter),
      Face(LeftOpen, RightOpen, ToneB, ToneA, ZeroArea, Found(2, 6)),
      Face(LeftShut, RightShut, ToneA, ToneB, Found(2, 5), Found(2, 5)),
      Face(LeftCrossed, RightOpen, ToneB, ToneA, Found(2, 6), Found(2, 6)),
      Face(LeftFlat, RightOpen, ToneA, ToneB, Found(2, 5), Found(2, 6)),
      Face(LeftOpen, RightFlat, ToneB, ToneA, Found(2, 6), Found(2, 5)),
      Face(LeftThin, RightOpen, ToneA, ToneB, Found(5, 6), Found(2, 6)),
      Face(LeftEdge, RightOpen, ToneB, ToneA, Found(2, 6), Found(2, 6)) }

(***************************************************************************)
(* calibration.py                                                          *)
(*                                                                         *)
(* A Calibration is [thresholds_left, thresholds_right].  The code reads   *)
(* the two lists only through len() and sum(), so each is kept as the bag  *)
(* of its elements: append adds one copy.                                  *)
(***************************************************************************)
nb_frames == 20

Calibration == [thresholds_left |-> EmptyBag, thresholds_right |-> EmptyBag]

append(list, v) == list (+) SetToBag({v})

len(list) == BagCardinality(list)

RECURSIVE SumOver(_, _)
SumOver(list, vs) ==
    IF vs = {} THEN 0
    ELSE LET v == CHOOSE u \in vs : TRUE
         IN  v * CopiesIn(v, list) + SumOver(list, vs \ {v})

sum(list) == SumOver(list, BagToSet(list))

\* Calibration.is_complete
is_complete(cal) ==
    len(cal.thresholds_left) >= nb_frames /\ len(cal.thresholds_right) >= nb_frames

\* The mean rounded up instead of truncated: the truncated-mean property must
\* fail under it.
AverageCeil(samples) ==
    IF len(samples) = 0 THEN Raise("ZeroDivisionError")
    ELSE PyInt(0 - TruncDiv(0 - sum(samples) - len(samples) + 1, len(samples)))

\* int(sum(samples) / len(samples))
Average(samples) ==
    IF len(samples) = 0 THEN Raise("ZeroDivisionError")
    ELSE PyInt(TruncDiv(sum(samples), len(samples)))

\* Calibration.threshold: a side that is neither 0 nor 1 falls off the end.
threshold(cal, side) ==
    IF side = 0 THEN Average(cal.thresholds_left)
    ELSE IF side = 1 THEN Average(cal.thresholds_right)
    ELSE None

\* Calibration.iris_size, on a binary frame.
iris_size(iris_frame) ==
    LET height == SliceLen(5, -5, iris_frame.height)
        width == SliceLen(5, -5, iris_frame.width)
        nb_pixels == height * width
        countNonZero == Cardinality({i \in DOMAIN iris_frame.inner : iris_frame.inner[i] # 0})
        nb_blacks == nb_pixels - countNonZero
    IN  IF nb_pixels = 0 THEN Raise("ZeroDivisionError")
        ELSE Float(nb_blacks, nb_pixels)

average_iris_size == Float(48, 100)

\* range(5, 100, 5), in iteration order.
Candidates == [k \in 1..19 |-> 5 * k]

\* trials[threshold], or what image_processing or iris_size raised.
Trial(eye_frame, t) ==
    LET iris_frame == image_processing(eye_frame, t)
    IN  IF IsRaise(iris_frame) THEN iris_frame ELSE iris_size(iris_frame)

\* key=(lambda p: abs(p[1] - average_iris_size))
TrialKey(eye_frame, t) == RatAbsDiff(Trial(eye_frame, t), average_iris_size)

\* A scan that also replaces the best item by an equally good later one: the
\* lowest-on-ties property must fail under it.
NotWorse(key, best) == RatLeq(key, best)

\* Whether min() replaces the best item so far by the next one.
Better(key, best) == RatLt(key, best)

\* min(trials.items(), key=...) scans the items in order and keeps the best
\* so far: the item no later one replaces and that replaces every earlier one.
MinItem(eye_frame) ==
    LET keys == {<<k, TrialKey(eye_frame, Candidates[k])>> : k \in DOMAIN Candidates}
    IN  CHOOSE p \in keys :
            \A q \in keys : /\ q[1] > p[1] => ~Better(q[2], p[2])
                            /\ q[1] < p[1] => Better(p[2], q[2])

\* The body of Calibration.find_best_threshold: the first trial that raises
\* ends the call.
BestThreshold(eye_frame) ==
    LET first == Trial(eye_frame, Candidates[1])
    IN  IF IsRaise(first) THEN first
        ELSE PyInt(Candidates[MinItem(eye_frame)[1]])

\* Every eye patch a call is given.
EyeFrames ==
    {Isolate(f, f.landmarks, points).frame :
        f \in Frames \ {Empty}, points \in {LEFT_EYE_POINTS, RIGHT_EYE_POINTS}}

\* Calibration.find_best_threshold: BestThreshold, tabulated once per patch.
BestTable == [eye_frame \in EyeFrames |-> BestThreshold(eye_frame)]

find_best_threshold(eye_frame) == BestTable[eye_frame]

\* Calibration.evaluate: [cal, out], the calibration after the call and its outcome.
evaluate(cal, eye_frame, side) ==
    LET best == find_best_threshold(eye_frame)
    IN  IF IsRaise(best) THEN [cal |-> cal, out |-> best]
        ELSE IF side = 0
        THEN [cal |-> [cal EXCEPT !.thresholds_left = append(@, best.v)], out |-> None]
        ELSE IF side = 1
        THEN [cal |-> [cal EXCEPT !.thresholds_right = append(@, best.v)], out |-> None]
        ELSE [cal |-> cal, out |-> None]

(***************************************************************************)
(* eye.py: Eye.__init__ and Eye._analyze                                   *)
(***************************************************************************)
\* Eye.__init__ before _analyze runs.
EyeInit == [tag |-> "Eye", frame |-> None, origin |-> None, center |-> None,
            pupil |-> None, landmark_points |-> None, blinking |-> Unset]

\* A gate that never closes: the frozen-calibration property must fail under it.
SamplingUngated(cal) == TRUE

\* Whether Eye._analyze takes a calibration sample.
Sampling(cal) == ~is_complete(cal)

\* Eye._analyze from Pupil(self.frame, threshold) on.
Detected(blinking, iso, cal, pupil) ==
    IF IsRaise(pupil) THEN [out |-> pupil, eye |-> None, cal |-> cal]
    ELSE [out |-> None,
          eye |-> [tag |-> "Eye", frame |-> iso.frame, origin |-> iso.origin,
                   center |-> iso.center, pupil |-> pupil,
                   landmark_points |-> iso.landmark_points, blinking |-> blinking],
          cal |-> cal]

\* Eye._analyze from calibration.threshold(side) on, th being what it gave.
Thresholded(blinking, iso, cal, th) ==
    IF IsRaise(th) THEN [out |-> th, eye |-> None, cal |-> cal]
    ELSE Detected(blinking, iso, cal, Pupil(iso.frame, th.v))

\* Eye._analyze after the calibration step, ev being what that step gave.
Calibrated(side, blinking, iso, ev) ==
    IF IsRaise(ev.out) THEN [out |-> ev.out, eye |-> None, cal |-> ev.cal]
    ELSE Thresholded(blinking, iso, ev.cal, threshold(ev.cal, side))

\* An Eye._analyze that never takes a calibration sample: the property that
\* the average is only taken of a list that holds a sample must fail under it.
Unsampled(side, blinking, iso, cal) ==
    Calibrated(side, blinking, iso, [cal |-> cal, out |-> None])

\* Eye._analyze after _blinking_ratio and _isolate.
Isolated(side, blinking, iso, cal) ==
    Calibrated(side, blinking, iso,
               IF Sampling(cal) THEN evaluate(cal, iso.frame, side)
                                ELSE [cal |-> cal, out |-> None])

\* Eye(original_frame, landmarks, side, calibration): [out, eye, cal], the
\* outcome, the Eye built when nothing was raised, and the calibration after.
Eye(original_frame, landmarks, side, cal) ==
    IF side = 0
    THEN Isolated(side, BlinkingRatio(landmarks, LEFT_EYE_POINTS),
                  Isolate(original_frame, landmarks, LEFT_EYE_POINTS), cal)
    ELSE IF side = 1
    THEN Isolated(side, BlinkingRatio(landmarks, RIGHT_EYE_POINTS),
                  Isolate(original_frame, landmarks, RIGHT_EYE_POINTS), cal)
    ELSE [out |-> None, eye |-> EyeInit, cal |-> cal]                 \* return

(***************************************************************************)
(* gaze_tracking.py                                                        *)
(*                                                                         *)
(* The engine's fields are the variables frame, eye_left, eye_right and    *)
(* calibration.  result is the last call: its name, what it raised (or     *)
(* None) and, for refresh, what held of the engine when it was called.     *)
(* faults counts the calls that raised.                                    *)
(***************************************************************************)
VARIABLES frame, eye_left, eye_right, calibration, result, faults

vars == <<frame, eye_left, eye_right, calibration, result, faults>>

HasCentroid(eye) ==
    /\ eye.tag = "Eye"
    /\ eye.pupil.tag = "Pupil"
    /\ eye.pupil.x.tag = "int"
    /\ eye.pupil.y.tag = "int"

\* GazeTracking.pupils_located: any exception gives False.
pupils_located == HasCentroid(eye_left) /\ HasCentroid(eye_right)

\* A guard that looks at the eye asked about only: the coordinates property
\* must fail under it.
OwnCentroid(eye) == HasCentroid(eye)

\* The guard of pupil_left_coords and pupil_right_coords.
CoordsGuard(eye) == pupils_located

Coords(eye) ==
    IF CoordsGuard(eye)
    THEN <<PyInt(eye.origin[1] + eye.pupil.x.v), PyInt(eye.origin[2] + eye.pupil.y.v)>>
    ELSE None

pupil_left_coords == Coords(eye_left)

pupil_right_coords == Coords(eye_right)

\* pupil / (center * 2 - 10), one eye and one axis (1: x, 2: y).
AxisRatio(eye, axis) ==
    LET pupil == IF axis = 1 THEN eye.pupil.x.v ELSE eye.pupil.y.v
        c == eye.center[axis]
        den == Float(c.n * 2 - 10 * c.d, c.d)
    IN  IF den.n = 0 THEN Raise("ZeroDivisionError")
        ELSE Float(pupil * den.d, den.n)

Ratio(axis) ==
    IF pupils_located
    THEN LET pupil_left == AxisRatio(eye_left, axis)
             pupil_right == AxisRatio(eye_right, axis)
         IN  IF IsRaise(pupil_left) THEN pupil_left
             ELSE IF IsRaise(pupil_right) THEN pupil_right
             ELSE RatMean(pupil_left, pupil_right)
    ELSE None

horizontal_ratio == Ratio(1)

vertical_ratio == Ratio(2)

is_right ==
    IF pupils_located
    THEN IF IsRaise(horizontal_ratio) THEN horizontal_ratio
         ELSE PyBool(RatLeq(horizontal_ratio, Float(35, 100)))
    ELSE None

is_left ==
    IF pupils_located
    THEN IF IsRaise(horizontal_ratio) THEN horizontal_ratio
         ELSE PyBool(RatLeq(Float(65, 100), horizontal_ratio))
    ELSE None

is_center ==
    IF pupils_located
    THEN IF IsRaise(is_right) THEN is_right
         ELSE IF is_right # PyBool(TRUE) /\ IsRaise(is_left) THEN is_left
         ELSE PyBool(is_right # PyBool(TRUE) /\ is_left # PyBool(TRUE))
    ELSE None

\* None + float and float + None raise TypeError.
is_blinking ==
    IF pupils_located
    THEN IF eye_left.blinking = None \/ eye_right.blinking = None
         THEN Raise("TypeError")
         ELSE PyBool(RatLt(Float(38, 10), RatMean(eye_left.blinking, eye_right.blinking)))
    ELSE None

\* Eyes left as they were: the no-face property must fail under it.
KeepEyes == [eye_left |-> eye_left, eye_right |-> eye_right]

\* The except IndexError branch of GazeTracking._analyze.
NoFace == [eye_left |-> None, eye_right |-> None]

\* GazeTracking._analyze once both Eye calls were made, l and r being what
\* they gave.  An Eye that raises leaves its field as it was.
Assigned(l, r) ==
    IF IsRaise(r.out)
    THEN [eye_left |-> l.eye, eye_right |-> eye_right,
          calibration |-> r.cal, out |-> r.out]
    ELSE [eye_left |-> l.eye, eye_right |-> r.eye,
          calibration |-> r.cal, out |-> None]

\* GazeTracking._analyze after the left Eye call: a left Eye that raises
\* leaves both fields as they were.
AfterLeft(f, l) ==
    IF IsRaise(l.out)
    THEN [eye_left |-> eye_left, eye_right |-> eye_right,
          calibration |-> l.cal, out |-> l.out]
    ELSE Assigned(l, Eye(f, f.landmarks, 1, l.cal))

\* GazeTracking._analyze on self.frame = f: the fields after it, and its outcome.
Analyze(f) ==
    IF f.faces = 0
    THEN [eye_left |-> NoFace.eye_left, eye_right |-> NoFace.eye_right,
          calibration |-> calibration, out |-> None]
    ELSE AfterLeft(f, Eye(f, f.landmarks, 0, calibration))

\* At most MaxFaults calls of a run raise.
MaxFaults == 1

(***************************************************************************)
(* The engine driven through refresh.                                      *)
(***************************************************************************)
Init ==
    /\ frame = None
    /\ eye_left = None
    /\ eye_right = None
    /\ calibration = Calibration
    /\ result = [op |-> "__init__", out |-> None, complete |-> FALSE, located |-> FALSE]
    /\ faults = 0

\* GazeTracking.refresh(f)
Refresh(f) ==
    \E a \in {Analyze(f)} :
        /\ IsRaise(a.out) => faults < MaxFaults
        /\ frame' = f
        /\ eye_left' = a.eye_left
        /\ eye_right' = a.eye_right
        /\ calibration' = a.calibration
        /\ result' = [op |-> "refresh", out |-> a.out,
                      complete |-> is_complete(calibration), located |-> pupils_located]
        /\ faults' = IF IsRaise(a.out) THEN faults + 1 ELSE faults

Next == \E f \in Frames : Refresh(f)

Spec == Init /\ [][Next]_vars

(***************************************************************************)
(* Properties of the engine driven through refresh.                        *)
(***************************************************************************)
Full(list) == len(list) >= nb_frames

\* C1: once both sample lists hold nb_frames samples, no refresh, with or
\* without a face, appends to either list, so threshold(0) and threshold(1)
\* keep their values.
C1_CalibrationFrozen ==
    [][(Full(calibration.thresholds_left) /\ Full(calibration.thresholds_right))
        => /\ calibration'.thresholds_left = calibration.thresholds_left
           /\ calibration'.thresholds_right = calibration.thresholds_right
           /\ threshold(calibration', 0) = threshold(calibration, 0)
           /\ threshold(calibration', 1) = threshold(calibration, 1)]_vars

\* A refresh that analysed a face without raising, on a complete calibration.
C1_Witness ==
    /\ result.op = "refresh"
    /\ result.complete
    /\ frame.faces = 1
    /\ result.out = None
    /\ eye_left.tag = "Eye"
    /\ eye_left.frame = Isolate(frame, frame.landmarks, LEFT_EYE_POINTS).frame

\* C2: driven through refresh only, neither sample list ever holds more than
\* nb_frames samples.
C2_WithinCapacity ==
    /\ len(calibration.thresholds_left) <= nb_frames
    /\ len(calibration.thresholds_right) <= nb_frames

\* Whether the eye's blink ratio is undefined.
BlinkUndefined(eye) == eye.tag = "Eye" /\ eye.blinking = None

\* C3: when either eye's blink ratio is undefined, is_blinking returns
\* undefined: neither a fault nor a boolean.
C3_BlinkPropagates ==
    (eye_left.tag = "Eye" /\ eye_right.tag = "Eye"
        /\ (BlinkUndefined(eye_left) \/ BlinkUndefined(eye_right)))
    => is_blinking = None

\* Whether the eye's six landmarks have no vertical or no horizontal extent.
ZeroExtent(f, points) ==
    \/ Cardinality({f.landmarks[points[i]].x : i \in 1..Len(points)}) = 1
    \/ Cardinality({f.landmarks[points[i]].y : i \in 1..Len(points)}) = 1

Degenerate(f) ==
    f.faces = 1 /\ (ZeroExtent(f, LEFT_EYE_POINTS) \/ ZeroExtent(f, RIGHT_EYE_POINTS))

\* C4: refresh on a face with an eye of zero extent raises nothing, and the
\* horizontal and vertical ratios that follow are undefined, before and after
\* calibration is complete.
C4_DegenerateUndefined ==
    (result.op = "refresh" /\ Degenerate(frame))
    => /\ result.out = None
       /\ horizontal_ratio = None
       /\ vertical_ratio = None

\* C6: after refresh on a frame without a face both eyes are undefined,
\* pupils_located is false, and the coordinates, the ratios, the direction
\* predicates and is_blinking are all undefined, whatever the frame before held.
C6_NoFaceClears ==
    (result.op = "refresh" /\ frame.faces = 0)
    => /\ eye_left = None
       /\ eye_right = None
       /\ ~pupils_located
       /\ pupil_left_coords = None
       /\ pupil_right_coords = None
       /\ horizontal_ratio = None
       /\ vertical_ratio = None
       /\ is_right = None
       /\ is_left = None
       /\ is_center = None
       /\ is_blinking = None

\* A frame without a face, refreshed when both pupils were located.
C6_Witness ==
    /\ result.op = "refresh"
    /\ frame.faces = 0
    /\ result.located
    /\ result.out = None

\* C7: with both pupils located, is_right is horizontal_ratio <= 0.35, is_left
\* is horizontal_ratio >= 0.65, is_center is neither, and exactly one holds.
C7_DirectionPartition ==
    pupils_located
    => /\ horizontal_ratio.tag = "float"
       /\ is_right = PyBool(RatLeq(horizontal_ratio, Float(35, 100)))
       /\ is_left = PyBool(RatLeq(Float(65, 100), horizontal_ratio))
       /\ is_center = PyBool(is_right = PyBool(FALSE) /\ is_left = PyBool(FALSE))
       /\ Cardinality({p \in {"right", "left", "center"} :
                (CASE p = "right" -> is_right
                   [] p = "left" -> is_left
                   [] p = "center" -> is_center) = PyBool(TRUE)}) = 1

Samples(side) ==
    IF side = 0 THEN calibration.thresholds_left ELSE calibration.thresholds_right

\* Whether v is the quotient total / count truncated toward zero.
TruncatedMean(v, total, count) ==
    /\ Abs(v) * count <= Abs(total)
    /\ Abs(total) < (Abs(v) + 1) * count
    /\ (total >= 0 => v >= 0)
    /\ (total <= 0 => v <= 0)

\* C8: is_complete is true exactly when both lists hold at least nb_frames
\* samples, and threshold(side) is the mean of that side's samples truncated
\* toward zero: of its nb_frames samples once each side was evaluated
\* nb_frames times, and of however many it holds before and after.
C8_CompleteAndMean ==
    /\ is_complete(calibration) <=>
            (len(calibration.thresholds_left) >= nb_frames
                /\ len(calibration.thresholds_right) >= nb_frames)
    /\ (len(calibration.thresholds_left) = nb_frames
            /\ len(calibration.thresholds_right) = nb_frames) => is_complete(calibration)
    /\ \A side \in {0, 1} :
            len(Samples(side)) > 0
            => /\ threshold(calibration, side).tag = "int"
               /\ TruncatedMean(threshold(calibration, side).v,
                                sum(Samples(side)), len(Samples(side)))

\* Both sides hold exactly nb_frames samples and the left mean is not whole.
C8_Witness ==
    /\ len(calibration.thresholds_left) = nb_frames
    /\ len(calibration.thresholds_right) = nb_frames
    /\ is_complete(calibration)
    /\ sum(calibration.thresholds_left) % nb_frames # 0
    /\ faults = 0

\* Whether the eye exists and its pupil has a centroid.
Defined(eye) == eye # None /\ eye.pupil.x # None /\ eye.pupil.y # None

\* C9: pupils_located is true iff both eyes exist and have a centroid; the
\* coordinates of an eye are its origin plus its centroid when pupils_located
\* is true and undefined when it is false, also for the eye that has a centroid.
C9_Coords ==
    /\ pupils_located <=> (Defined(eye_left) /\ Defined(eye_right))
    /\ pupils_located =>
            /\ pupil_left_coords = <<PyInt(eye_left.origin[1] + eye_left.pupil.x.v),
                                     PyInt(eye_left.origin[2] + eye_left.pupil.y.v)>>
            /\ pupil_right_coords = <<PyInt(eye_right.origin[1] + eye_right.pupil.x.v),
                                      PyInt(eye_right.origin[2] + eye_right.pupil.y.v)>>
    /\ ~pupils_located => (pupil_left_coords = None /\ pupil_right_coords = None)

\* The left eye has a centroid, the right eye has none.
C9_Witness ==
    /\ Defined(eye_left)
    /\ eye_right # None
    /\ ~Defined(eye_right)
    /\ pupil_left_coords = None

(***************************************************************************)
(* Calibration and Eye called directly, as their signatures allow: any     *)
(* side, any eye patch.  result is the last call: its name, its side, its  *)
(* frame or patch, what it returned or raised, and the Eye it built.       *)
(***************************************************************************)
\* The sides a caller passes: LEFT, RIGHT and one that is neither.
Sides == {0, 1, 2}

\* Each list holds at most MaxApiSamples samples in these runs.
MaxApiSamples == 2

Room ==
    /\ len(calibration.thresholds_left) < MaxApiSamples
    /\ len(calibration.thresholds_right) < MaxApiSamples

Call(op, side, arg, out, eye) ==
    [op |-> op, side |-> side, arg |-> arg, out |-> out, eye |-> eye]

InitApi ==
    /\ frame = None
    /\ eye_left = None
    /\ eye_right = None
    /\ calibration = Calibration
    /\ result = Call("__init__", None, None, None, None)
    /\ faults = 0

\* calibration.threshold(side)
CallThreshold(side) ==
    /\ result' = Call("threshold", side, None, threshold(calibration, side), None)
    /\ UNCHANGED <<frame, eye_left, eye_right, calibration, faults>>

\* calibration.evaluate(eye_frame, side)
CallEvaluate(eye_frame, side) ==
    \E e \in {evaluate(calibration, eye_frame, side)} :
        /\ Room
        /\ calibration' = e.cal
        /\ result' = Call("evaluate", side, eye_frame, e.out, None)
        /\ UNCHANGED <<frame, eye_left, eye_right, faults>>

\* Eye(f, landmarks, side, calibration)
CallEye(f, side) ==
    \E e \in {Eye(f, f.landmarks, side, calibration)} :
        /\ Room
        /\ calibration' = e.cal
        /\ result' = Call("Eye", side, f, e.out, e.eye)
        /\ UNCHANGED <<frame, eye_left, eye_right, faults>>

\* Calibration.find_best_threshold(eye_frame)
CallFindBestThreshold(eye_frame) ==
    /\ result' = Call("find_best_threshold", None, eye_frame,
                      find_best_threshold(eye_frame), None)
    /\ UNCHANGED <<frame, eye_left, eye_right, calibration, faults>>

NextApi ==
    \/ \E side \in Sides : CallThreshold(side)
    \/ \E eye_frame \in EyeFrames, side \in Sides : CallEvaluate(eye_frame, side)
    \/ \E f \in Frames \ {Empty}, side \in Sides : CallEye(f, side)
    \/ \E eye_frame \in EyeFrames : CallFindBestThreshold(eye_frame)

SpecApi == InitApi /\ [][NextApi]_vars

\* C5: Eye, evaluate and threshold called with a side that is neither 0 nor 1
\* end in an error.
C5_InvalidSideFails ==
    (result.op \in {"Eye", "evaluate", "threshold"} /\ result.side \notin {0, 1})
    => IsRaise(result.out)

\* The thresholds range(5, 100, 5) tries.
Tried == {Candidates[k] : k \in DOMAIN Candidates}

\* C10: find_best_threshold returns the same value whenever it is called on
\* the same patch; that value is a multiple of 5 in [5, 95], no other
\* candidate's iris fraction is closer to 0.48, and every lower candidate's
\* is strictly farther.
C10_BestThreshold ==
    (result.op = "find_best_threshold" /\ ~IsRaise(result.out))
    => /\ result.out.tag = "int"
       /\ result.out = find_best_threshold(result.arg)
       /\ result.out.v % 5 = 0
       /\ 5 <= result.out.v /\ result.out.v <= 95
       /\ \A t \in Tried :
            /\ RatLeq(TrialKey(result.arg, result.out.v), TrialKey(result.arg, t))
            /\ t < result.out.v
                => RatLt(TrialKey(result.arg, result.out.v), TrialKey(result.arg, t))

\* A call whose result is as close to 0.48 as a higher candidate, and closer
\* than a lower one.
C10_Witness ==
    /\ result.op = "find_best_threshold"
    /\ ~IsRaise(result.out)
    /\ \E t \in Tried :
            /\ t > result.out.v
            /\ TrialKey(result.arg, t) = TrialKey(result.arg, result.out.v)
    /\ \E t \in Tried : t < result.out.v

(***************************************************************************)
(* Pupil.image_processing applied to one patch and one threshold.  The     *)
(* patch is 11 by 11, so that one pixel lies inside the 5-pixel border,    *)
(* and that pixel has any grey level; the threshold is any of 0..255.      *)
(***************************************************************************)
\* The values of a uint8 pixel, and of the threshold.
Grey == 0..255

Patch(v) == [height |-> 11, width |-> 11, tone |-> <<v>>, contours |-> <<>>]

InitPixel ==
    /\ frame = None
    /\ eye_left = None
    /\ eye_right = None
    /\ calibration = Calibration
    /\ result \in {Call("__init__", None, [eye_frame |-> Patch(v), threshold |-> t],
                        None, None) : v \in Grey, t \in Grey}
    /\ faults = 0

\* Pupil.image_processing(eye_frame, threshold)
CallImageProcessing ==
    /\ result.op = "__init__"
    /\ result' = Call("image_processing", None, result.arg,
                      image_processing(result.arg.eye_frame, result.arg.threshold), None)
    /\ UNCHANGED <<frame, eye_left, eye_right, calibration, faults>>

NextPixel == CallImageProcessing

SpecPixel == InitPixel /\ [][NextPixel]_vars

\* The grey level of the processed patch's one inner pixel, and what the
\* threshold step made of it.
PixelIn == result.arg.eye_frame.tone[1]

PixelOut == result.out.inner[1]

\* C11 as stated: the output pixel is 0 iff the smoothed and eroded level is
\* below the threshold and 255 otherwise, so a level equal to the threshold
\* gives 255.
C11_BelowIsForeground ==
    result.op = "image_processing"
    => /\ PixelOut = 0 <=> PixelIn < result.arg.threshold
       /\ PixelOut = 255 <=> PixelIn >= result.arg.threshold

\* C11 as the code has it: the output pixel is 255 iff the level is above the
\* threshold and 0 otherwise, so a level equal to the threshold gives 0.
C11_AboveIsBackground ==
    result.op = "image_processing"
    => /\ PixelOut \in {0, 255}
       /\ PixelOut = 255 <=> PixelIn > result.arg.threshold
       /\ PixelOut = 0 <=> PixelIn <= result.arg.threshold
       /\ PixelIn = result.arg.threshold => PixelOut = 0

\* A level equal to the threshold, processed.
C11_Witness ==
    /\ result.op = "image_processing"
    /\ PixelIn = result.arg.threshold
    /\ PixelOut = 0

(***************************************************************************)
(* Properties of the pupils of the engine's eyes.                          *)
(***************************************************************************)
\* Whether contour j comes after contour i when cs is sorted by area: a
\* greater area, or the same area and a later place in cs.
After(cs, i, j) ==
    \/ cs[j].area > cs[i].area
    \/ cs[j].area = cs[i].area /\ j > i

\* The places in cs of the second largest contour by area: those that
\* exactly one other contour comes after.
SecondLargest(cs) ==
    {i \in DOMAIN cs : Cardinality({j \in DOMAIN cs : j # i /\ After(cs, i, j)}) = 1}

\* What C12 says of the pupil of one eye, from the contours of its patch.
SelectedCentroid(eye) ==
    LET cs == eye.frame.contours
        x == eye.pupil.x
        y == eye.pupil.y
    IN  /\ eye.pupil.tag = "Pupil"
        /\ (x = None) <=> (y = None)
        /\ Len(cs) < 2 => x = None
        /\ Len(cs) >= 2 =>
            \E i \in SecondLargest(cs) :
                IF cs[i].m00 = 0 THEN x = None
                ELSE /\ x.tag = "int" /\ y.tag = "int"
                     /\ TruncatedMean(x.v, cs[i].m10, cs[i].m00)
                     /\ TruncatedMean(y.v, cs[i].m01, cs[i].m00)

\* C12: detect_iris takes the second largest contour by area and sets the
\* centroid to the truncated M10/M00 and M01/M00; with fewer than two
\* contours, or a selected contour of no area, it raises nothing and leaves
\* x and y undefined; x is defined iff y is.
C12_SecondLargestCentroid ==
    /\ eye_left.tag = "Eye" => SelectedCentroid(eye_left)
    /\ eye_right.tag = "Eye" => SelectedCentroid(eye_right)
    /\ (result.op = "refresh" /\ frame.faces = 1 /\ result.out = None)
        => /\ eye_left.frame.contours = frame.content[36].contours
           /\ eye_right.frame.contours = frame.content[42].contours

\* A refresh after which the left eye's selected contour has no area and the
\* right eye has a centroid, or the right eye has a single contour and the
\* left eye has a centroid.
C12_Witness ==
    /\ result.op = "refresh" /\ frame.faces = 1 /\ result.out = None
    /\ \/ /\ eye_left.frame.contours = ZeroArea
          /\ eye_left.pupil.x = None
          /\ Len(eye_right.frame.contours) = 3
          /\ eye_right.pupil.x # None
       \/ /\ eye_right.frame.contours = OnlyOuter
          /\ eye_right.pupil.x = None
          /\ eye_left.pupil.x # None

(***************************************************************************)
(* Eye._isolate applied to one frame and the landmarks of its left eye.    *)
(* The eye is one of three shapes, moved over the frame so that its        *)
(* bounding box lies inside the frame, within 5 pixels of each edge, or    *)
(* against it.                                                             *)
(***************************************************************************)
Moved(l, dx, dy) == [i \in 1..Len(l) |-> Pt(l[i].x + dx, l[i].y + dy)]

\* Moves of the eye, whose x are 10..14 and y are 10..12, in a frame 40 wide
\* and 30 high.
MovesX == {-10, -8, -6, -5, 0, 20, 21, 22, 25}

MovesY == {-10, -6, -5, 0, 13, 14, 17}

MovedFrames ==
    {Face(Moved(l, dx, dy), RightOpen, ToneA, ToneB, Found(2, 6), Found(2, 6)) :
        l \in {LeftOpen, LeftFlat, LeftThin}, dx \in MovesX, dy \in MovesY}

InitIsolate ==
    /\ frame = None
    /\ eye_left = None
    /\ eye_right = None
    /\ calibration = Calibration
    /\ result \in {Call("__init__", 0, f, None, None) : f \in MovedFrames}
    /\ faults = 0

\* self._isolate(original_frame, landmarks, points), for the left eye
CallIsolate ==
    /\ result.op = "__init__"
    /\ result' = Call("_isolate", result.side, result.arg, None,
                      Isolate(result.arg, result.arg.landmarks, LEFT_EYE_POINTS))
    /\ UNCHANGED <<frame, eye_left, eye_right, calibration, faults>>

NextIsolate == CallIsolate

SpecIsolate == InitIsolate /\ [][NextIsolate]_vars

\* The bounding box of the isolated eye's landmarks: <<minX, maxX, minY, maxY>>.
Box ==
    LET xs == {result.arg.landmarks[LEFT_EYE_POINTS[i]].x : i \in 1..6}
        ys == {result.arg.landmarks[LEFT_EYE_POINTS[i]].y : i \in 1..6}
    IN  <<SetMin(xs), SetMax(xs), SetMin(ys), SetMax(ys)>>

\* Whether the box with its margin of 5 lies inside the frame.
BoxInside ==
    /\ Box[1] - 5 >= 0
    /\ Box[3] - 5 >= 0
    /\ Box[2] + 5 <= result.arg.shape[2]
    /\ Box[4] + 5 <= result.arg.shape[1]

\* C13: isolation records origin = (minX - 5, minY - 5), a crop of width
\* (maxX - minX) + 10 and height (maxY - minY) + 10 and center = (width / 2,
\* height / 2), so that 2 * center - 10 is the extent of the bounding box on
\* each axis, also when the box lies within 5 pixels of a frame edge.
C13_CropGeometry ==
    result.op = "_isolate"
    => /\ result.eye.origin = <<Box[1] - 5, Box[3] - 5>>
       /\ result.eye.frame.width = (Box[2] - Box[1]) + 10
       /\ result.eye.frame.height = (Box[4] - Box[3]) + 10
       /\ result.eye.center = <<Float(result.eye.frame.width, 2),
                                Float(result.eye.frame.height, 2)>>
       /\ RatAbsDiff(result.eye.center[1], Float(Box[2] - Box[1] + 10, 2)).n = 0
       /\ RatAbsDiff(result.eye.center[2], Float(Box[4] - Box[3] + 10, 2)).n = 0

(***************************************************************************)
(* Properties of the calibration samples over refresh calls.               *)
(***************************************************************************)
EyeOf(side) == IF side = 0 THEN eye_left ELSE eye_right

PointsOf(side) == IF side = 0 THEN LEFT_EYE_POINTS ELSE RIGHT_EYE_POINTS

\* The patch of the side's eye in the current frame.
OwnPatch(side) == Isolate(frame, frame.landmarks, PointsOf(side)).frame

\* Whether the side's patch has no pixel inside its 5-pixel border, which is
\* where find_best_threshold divides by zero.
NoInterior(side) == InnerCount(OwnPatch(side).height, OwnPatch(side).width) = 0

\* A division by zero that left the call came from the sampling of the left
\* eye, or from the sampling of the right eye after the left average was
\* taken of a list that holds a sample: not from an average of an empty list.
FaultInSampling ==
    /\ ~result.complete
    /\ \/ NoInterior(0)
       \/ NoInterior(1) /\ len(Samples(0)) > 0

\* C14: over refresh calls from a fresh engine, threshold(side) is never
\* evaluated on an empty list: a call that samples appends the side's own
\* sample before the average is taken, so the threshold an eye is given is
\* the truncated mean of the samples its side then holds, this frame's
\* included; a division by zero that leaves a call is not the average's; and
\* once calibration is complete both lists hold at least nb_frames samples.
C14_SampleBeforeAverage ==
    /\ (result.op = "refresh" /\ frame.faces = 1)
       => /\ result.out = None
             => /\ \A side \in {0, 1} :
                      /\ len(Samples(side)) > 0
                      /\ TruncatedMean(EyeOf(side).pupil.threshold,
                                       sum(Samples(side)), len(Samples(side)))
                /\ ~result.complete
                   => \A side \in {0, 1} :
                         BagIn(find_best_threshold(OwnPatch(side)).v, Samples(side))
          /\ result.out = Raise("ZeroDivisionError") => FaultInSampling
    /\ is_complete(calibration)
       => /\ len(calibration.thresholds_left) >= nb_frames
          /\ len(calibration.thresholds_right) >= nb_frames

\* A sampling refresh returned, the left list holds several samples that are
\* not all equal, and their mean is not whole.
C14_Witness ==
    /\ result.op = "refresh"
    /\ result.out = None
    /\ frame.faces = 1
    /\ ~result.complete
    /\ len(calibration.thresholds_left) >= 2
    /\ sum(calibration.thresholds_left) % len(calibration.thresholds_left) # 0
    /\ BagIn(find_best_threshold(OwnPatch(0)).v, calibration.thresholds_left)
    /\ TruncatedMean(eye_left.pupil.threshold, sum(calibration.thresholds_left),
                     len(calibration.thresholds_left))

(***************************************************************************)
(* Properties of the two sample lists taken together.                      *)
(***************************************************************************)
\* C15: the two sample lists advance in lock step: after every refresh that
\* returns normally, thresholds_left and thresholds_right have the same
\* length, whatever no-face frames and calls that raised came before.
C15_LockStep ==
    (result.op = "refresh" /\ result.out = None)
    => len(calibration.thresholds_left) = len(calibration.thresholds_right)

====
